---------------------------- MODULE Spec2Model ----------------------------
(***************************************************************************)
(* PopIn: the local-storage simulation of the backend                      *)
(* (src/services/firebase.ts), the calendar store's overlap check and the  *)
(* authentication store (src/store/authStore.tsx).                         *)
(*                                                                         *)
(* Strings whose letter case or lexicographic order the code looks at      *)
(* (e-mails, usernames, user ids, conversation ids) are sequences of       *)
(* UTF-16 code units; strings that are only compared for equality are      *)
(* TLA+ strings.                                                           *)
(***************************************************************************)
EXTENDS Integers, Sequences, FiniteSets, TLC

VARIABLES
    users,          \* localStorage "social_network_users": id -> User
    auth,           \* localStorage "social_network_auth": email -> {password, userId}
    events,         \* localStorage "social_network_events": key -> Event
    messages,       \* localStorage "social_network_messages": key -> Message
    notifications,  \* localStorage "social_network_notifications": key -> Notification
    subs,           \* the subscriptions made with getConversationMessages / getUserNotifications
    authResult,     \* what the last createUserAccount / signInUser call took and returned
    registered,     \* history: the successful createUserAccount calls
    authState,      \* useAuthStore's React state {user, isAuthenticated, isLoading}
    session,        \* localStorage "social_network_current_user"
    authStateCallback, \* firebase.ts's module variable authStateCallback
    mounted,        \* the life cycle of the AuthProvider component
    pendingCall,    \* the login / register call that awaits its service call
    returned,       \* what the last login / register call returned
    loggedOut       \* history: logout has completed and no login / register succeeded since

vars == <<users, auth, events, messages, notifications, subs, authResult, registered,
          authState, session, authStateCallback, mounted, pendingCall, returned,
          loggedOut>>

storageVars == <<users, auth, events, messages, notifications>>
storeVars == <<authState, session, authStateCallback, mounted, pendingCall, returned,
               loggedOut>>

(***************************************************************************)
(* Bounds of the model.                                                    *)
(***************************************************************************)
MaxUsers == 2
MaxEvents == 2
MaxNotifications == 4
MaxMessages == 2
MaxPending == 1
MaxFriends == 2

(***************************************************************************)
(* Strings as sequences of code units.                                     *)
(***************************************************************************)
\* String.prototype.toLowerCase on ASCII letters: 'A'..'Z' -> 'a'..'z'.
ToLower(s) == [i \in 1..Len(s) |-> IF s[i] \in 65..90 THEN s[i] + 32 ELSE s[i]]

\* The default comparison of Array.prototype.sort: by UTF-16 code units,
\* a proper prefix before the longer string.  TRUE when a sorts before b.
RECURSIVE LexLess(_, _)
LexLess(a, b) ==
    IF a = << >> THEN b # << >>
    ELSE IF b = << >> THEN FALSE
    ELSE IF Head(a) # Head(b) THEN Head(a) < Head(b)
    ELSE LexLess(Tail(a), Tail(b))

\* [x, y].sort()
SortPair(x, y) == IF LexLess(y, x) THEN <<y, x>> ELSE <<x, y>>

\* [x, y].join("-") ('-' is code unit 45)
JoinDash(p) == p[1] \o <<45>> \o p[2]

(***************************************************************************)
(* Storage helpers.                                                        *)
(***************************************************************************)
NoEntries == [k \in {} |-> 0]

\* obj[key] = value
Put(obj, key, value) ==
    [k \in (DOMAIN obj) \cup {key} |-> IF k = key THEN value ELSE obj[k]]

\* delete obj[key]
Remove(obj, key) == [k \in (DOMAIN obj) \ {key} |-> obj[k]]

\* generateId(): nine random base-36 digits.  Modelled as an id that is not a
\* key of the mapping it is generated for: the first such id of the pool.
GenerateId(pool, used) ==
    pool[CHOOSE i \in 1..Len(pool) :
            /\ pool[i] \notin used
            /\ \A j \in 1..(i - 1) : pool[j] \in used]

UserIdPool == [i \in 1..(MaxUsers + 1) |-> <<117, 48 + i>>]          \* "u1", "u2", ...
EventIdPool == [i \in 1..(MaxEvents + 1) |-> <<"e", i>>]
NotificationIdPool == [i \in 1..(MaxNotifications + 1) |-> <<"n", i>>]
MessageIdPool == [i \in 1..(MaxMessages + 1) |-> <<"m", i>>]
\* Subscriptions share nothing but the storage they read (each has its own
\* interval and callback): one subscription is modelled.
SubIdPool == << <<"s", 1>> >>

Range(f) == {f[k] : k \in DOMAIN f}

NoResult == [op |-> "none", args |-> << >>, success |-> TRUE, error |-> "", ret |-> << >>]

Result(op, args, success, error, ret) ==
    [op |-> op, args |-> args, success |-> success, error |-> error, ret |-> ret]

(***************************************************************************)
(* User management.                                                        *)
(***************************************************************************)
\* (mutant) the stored username compared with the username as typed
UserExistsAsTyped(username) ==
    \E k \in DOMAIN users : users[k].username = username

\* Object.values(existingUsers).some(user => user.username.toLowerCase() === username.toLowerCase())
UserExists(username) ==
    \E k \in DOMAIN users : ToLower(users[k].username) = ToLower(username)

\* Object.values(existingUsers).some(user => user.email.toLowerCase() === email.toLowerCase())
EmailExists(email) ==
    \E k \in DOMAIN users : ToLower(users[k].email) = ToLower(email)

\* (mutant) the credentials filed under the e-mail as typed
AuthKeyAsTyped(email) == email

\* The key under which createUserAccount files the credentials.
AuthKey(email) == ToLower(email)

NewUser(userId, email, username, fullName) ==
    [id |-> userId,
     email |-> ToLower(email),
     username |-> ToLower(username),
     fullName |-> fullName,
     friends |-> << >>,
     sent |-> << >>,
     received |-> << >>]

\* createUserAccount itself: what it writes and what it returns
CreateUserAccountCall(email, password, username, fullName) ==
    /\ UserExists(username) \/ EmailExists(email) \/ Cardinality(DOMAIN users) < MaxUsers
    /\ IF UserExists(username)
       THEN /\ authResult' = Result("createUserAccount", <<email, password, username>>,
                              FALSE, "Username already exists", << >>)
            /\ UNCHANGED <<users, auth, registered>>
       ELSE IF EmailExists(email)
       THEN /\ authResult' = Result("createUserAccount", <<email, password, username>>,
                              FALSE, "Email already exists", << >>)
            /\ UNCHANGED <<users, auth, registered>>
       ELSE LET userId == GenerateId(UserIdPool, DOMAIN users)
                userData == NewUser(userId, email, username, fullName)
            IN /\ users' = Put(users, userId, userData)
               /\ auth' = Put(auth, AuthKey(email), [password |-> password, userId |-> userId])
               /\ registered' = registered \cup
                      {[email |-> email, password |-> password, userId |-> userId]}
               /\ authResult' = Result("createUserAccount", <<email, password, username>>,
                                 TRUE, "", userData)
    /\ UNCHANGED <<events, messages, notifications, subs>>

\* createUserAccount called directly
CreateUserAccount(email, password, username, fullName) ==
    /\ CreateUserAccountCall(email, password, username, fullName)
    /\ UNCHANGED storeVars

\* What signInUser(email, password) returns in the current state.
SignInResult(email, password) ==
    LET key == ToLower(email)
    IN IF key \notin DOMAIN auth \/ auth[key].password # password
       THEN Result("signInUser", <<email, password>>, FALSE, "Invalid email or password", << >>)
       ELSE IF auth[key].userId \notin DOMAIN users
       THEN Result("signInUser", <<email, password>>, FALSE, "User data not found", << >>)
       ELSE Result("signInUser", <<email, password>>, TRUE, "", users[auth[key].userId])

SignInUser(email, password) ==
    /\ authResult' = SignInResult(email, password)
    /\ UNCHANGED <<users, auth, events, messages, notifications, subs, registered>>
    /\ UNCHANGED storeVars

(***************************************************************************)
(* Dates.  A date string is [valid, ms, iso]: whether Date can parse it,   *)
(* the instant it denotes, and whether it is written the way toISOString   *)
(* writes it.  Instants are >= 0; NaN is the time value of an Invalid Date.*)
(***************************************************************************)
NaN == 0 - 1

InvalidDateString == [valid |-> FALSE, ms |-> 0, iso |-> FALSE]

\* new Date(s).getTime()
GetTime(s) == IF s.valid THEN s.ms ELSE NaN

\* new Date(t).toISOString(), for a valid time value t
ToISOString(t) == [valid |-> TRUE, ms |-> t, iso |-> TRUE]

(***************************************************************************)
(* Friends.                                                                *)
(***************************************************************************)
\* arr.filter(id => id !== x)
RECURSIVE Without(_, _)
Without(arr, x) ==
    IF arr = << >> THEN << >>
    ELSE IF Head(arr) = x THEN Without(Tail(arr), x)
    ELSE <<Head(arr)>> \o Without(Tail(arr), x)

Includes(arr, x) == \E i \in 1..Len(arr) : arr[i] = x

\* new Date().getTime() at the time an entry is added to a mapping.  Clock
\* readings are modelled as strictly increasing: the number of entries stored
\* before.
Clock(obj) == Cardinality(DOMAIN obj)

\* notifications[generateId()] = {id, userId, type, ..., data, read: false}
AddNotification(notifs, userId, type, data) ==
    LET notificationId == GenerateId(NotificationIdPool, DOMAIN notifs)
    IN Put(notifs, notificationId,
           [id |-> notificationId, userId |-> userId, type |-> type,
            data |-> data, read |-> FALSE, createdAt |-> ToISOString(Clock(notifs))])

SendFriendRequest(fromUserId, toUserId) ==
    /\ Cardinality(DOMAIN notifications) < MaxNotifications
    /\ fromUserId \in DOMAIN users => Len(users[fromUserId].sent) < MaxPending
    /\ toUserId \in DOMAIN users => Len(users[toUserId].received) < MaxPending
    /\ LET users1 == IF fromUserId \in DOMAIN users
                     THEN [users EXCEPT ![fromUserId].sent = Append(@, toUserId)]
                     ELSE users
           users2 == IF toUserId \in DOMAIN users1
                     THEN [users1 EXCEPT ![toUserId].received = Append(@, fromUserId)]
                     ELSE users1
       IN users' = users2
    /\ notifications' = AddNotification(notifications, toUserId, "friend_request",
                                        [senderId |-> fromUserId])
    /\ UNCHANGED <<auth, events, messages, subs, authResult, registered>>
    /\ UNCHANGED storeVars

AcceptFriendRequest(userId, requesterId) ==
    /\ userId \in DOMAIN users =>
          Len(users[userId].friends) + (IF userId = requesterId THEN 2 ELSE 1) <= MaxFriends
    /\ requesterId \in DOMAIN users => Len(users[requesterId].friends) < MaxFriends
    /\ LET users1 == IF userId \in DOMAIN users
                     THEN [users EXCEPT ![userId].received = Without(@, requesterId),
                                        ![userId].friends = Append(@, requesterId)]
                     ELSE users
           users2 == IF requesterId \in DOMAIN users1
                     THEN [users1 EXCEPT ![requesterId].sent = Without(@, userId),
                                         ![requesterId].friends = Append(@, userId)]
                     ELSE users1
       IN users' = users2
    /\ UNCHANGED <<auth, events, messages, notifications, subs, authResult, registered>>
    /\ UNCHANGED storeVars

\* (mutant) the requester's sent list left as it is
RejectFriendRequestOneSided(userId, requesterId) ==
    /\ users' = IF userId \in DOMAIN users
                THEN [users EXCEPT ![userId].received = Without(@, requesterId)]
                ELSE users
    /\ UNCHANGED <<auth, events, messages, notifications, subs, authResult, registered>>
    /\ UNCHANGED storeVars

RejectFriendRequest(userId, requesterId) ==
    /\ LET users1 == IF userId \in DOMAIN users
                     THEN [users EXCEPT ![userId].received = Without(@, requesterId)]
                     ELSE users
           users2 == IF requesterId \in DOMAIN users1
                     THEN [users1 EXCEPT ![requesterId].sent = Without(@, userId)]
                     ELSE users1
       IN users' = users2
    /\ UNCHANGED <<auth, events, messages, notifications, subs, authResult, registered>>
    /\ UNCHANGED storeVars

(***************************************************************************)
(* The overlap of two time ranges.                                         *)
(***************************************************************************)
\* Math.max / Math.min: NaN when an argument is NaN
MathMax(a, b) == IF a = NaN \/ b = NaN THEN NaN ELSE IF a >= b THEN a ELSE b
MathMin(a, b) == IF a = NaN \/ b = NaN THEN NaN ELSE IF a <= b THEN a ELSE b

\* a <= b and a < b on Dates (their time values): false when either is NaN
DateLeq(a, b) == a # NaN /\ b # NaN /\ a <= b
DateLess(a, b) == a # NaN /\ b # NaN /\ a < b

NoOverlap == [found |-> FALSE, start |-> InvalidDateString, end |-> InvalidDateString]

\* (mutant) the strict comparison of the calendar store
ServiceOverlapTestStrict(overlapStart, overlapEnd) == DateLess(overlapStart, overlapEnd)

\* The overlap test of checkForHangoutOverlaps (services/firebase.ts)
ServiceOverlapTest(overlapStart, overlapEnd) == DateLeq(overlapStart, overlapEnd)

ServiceOverlap(event, friendEvent) ==
    LET eventStart == GetTime(event.startTime)
        eventEnd == GetTime(event.endTime)
        friendStart == GetTime(friendEvent.startTime)
        friendEnd == GetTime(friendEvent.endTime)
        overlapStart == MathMax(eventStart, friendStart)
        overlapEnd == MathMin(eventEnd, friendEnd)
    IN IF ServiceOverlapTest(overlapStart, overlapEnd)
       THEN [found |-> TRUE, start |-> ToISOString(overlapStart), end |-> ToISOString(overlapEnd)]
       ELSE NoOverlap

\* getTimeOverlap of the calendar store (useCalendarStore); null is NoOverlap
GetTimeOverlap(event1, event2) ==
    LET start1 == GetTime(event1.startTime)
        end1 == GetTime(event1.endTime)
        start2 == GetTime(event2.startTime)
        end2 == GetTime(event2.endTime)
        overlapStart == MathMax(start1, start2)
        overlapEnd == MathMin(end1, end2)
    IN IF DateLess(overlapStart, overlapEnd)
       THEN [found |-> TRUE, start |-> ToISOString(overlapStart), end |-> ToISOString(overlapEnd)]
       ELSE NoOverlap

(***************************************************************************)
(* Events.                                                                 *)
(***************************************************************************)
\* Object.values(obj) walks the keys of obj; modelled as the stored keys in
\* the order of the pool they were generated from
KeysIn(pool, keys) ==
    LET idx == {i \in 1..Len(pool) : pool[i] \in keys}
    IN [r \in 1..Cardinality(idx) |->
           pool[CHOOSE i \in idx : Cardinality({j \in idx : j < i}) = r - 1]]

\* (mutant) the type of the friend's event not looked at
IsFriendEvent(friendEvent, friendId) == friendEvent.userId = friendId

\* Whether the inner loop of checkForHangoutOverlaps looks at friendEvent for friendId
IsFriendHangout(friendEvent, friendId) ==
    friendEvent.userId = friendId /\ friendEvent.type = "hangout"

\* The matches found for one entry of the friends list, over the event keys ks
RECURSIVE MatchesOfFriend(_, _, _, _)
MatchesOfFriend(event, friendId, evs, ks) ==
    IF ks = << >> THEN << >>
    ELSE LET friendEvent == evs[Head(ks)]
             overlap == ServiceOverlap(event, friendEvent)
         IN (IF IsFriendHangout(friendEvent, friendId) /\ overlap.found
             THEN <<[friendId |-> friendId, friendEventId |-> friendEvent.id,
                     overlap |-> [start |-> overlap.start, end |-> overlap.end]]>>
             ELSE << >>)
            \o MatchesOfFriend(event, friendId, evs, Tail(ks))

\* for (const friendId of friends) Object.values(events).forEach(...)
RECURSIVE Matches(_, _, _)
Matches(event, friends, evs) ==
    IF friends = << >> THEN << >>
    ELSE MatchesOfFriend(event, Head(friends), evs, KeysIn(EventIdPool, DOMAIN evs))
         \o Matches(event, Tail(friends), evs)

\* The two notifications of one match
NotifyMatch(notifs, eventId, event, m) ==
    LET n1 == AddNotification(notifs, event.userId, "hangout_match",
                  [matchedUserId |-> m.friendId, overlappingTime |-> m.overlap,
                   hangoutEvents |-> <<eventId, m.friendEventId>>])
    IN AddNotification(n1, m.friendId, "hangout_match",
                  [matchedUserId |-> event.userId, overlappingTime |-> m.overlap,
                   hangoutEvents |-> <<eventId, m.friendEventId>>])

RECURSIVE NotifyAll(_, _, _, _)
NotifyAll(notifs, eventId, event, ms) ==
    IF ms = << >> THEN notifs
    ELSE NotifyAll(NotifyMatch(notifs, eventId, event, Head(ms)), eventId, event, Tail(ms))

\* The friends list checkForHangoutOverlaps walks; << >> when it returns early
FriendsToCheck(event) ==
    IF event.userId \in DOMAIN users THEN users[event.userId].friends ELSE << >>

\* The notifications mapping checkForHangoutOverlaps(eventId, event) saves,
\* evs being the stored events (the new one included)
CheckForHangoutOverlaps(eventId, event, evs) ==
    NotifyAll(notifications, eventId, event, Matches(event, FriendsToCheck(event), evs))

CreateEvent(event) ==
    /\ Cardinality(DOMAIN events) < MaxEvents
    /\ LET eventId == GenerateId(EventIdPool, DOMAIN events)
           stored == [id |-> eventId, userId |-> event.userId, type |-> event.type,
                      startTime |-> event.startTime, endTime |-> event.endTime]
           evs == Put(events, eventId, stored)
           found == IF event.type = "hangout"
                    THEN Matches(event, FriendsToCheck(event), evs)
                    ELSE << >>
       IN /\ Cardinality(DOMAIN notifications) + 2 * Len(found) <= MaxNotifications
          /\ events' = evs
          /\ notifications' = IF event.type = "hangout"
                              THEN CheckForHangoutOverlaps(eventId, event, evs)
                              ELSE notifications
    /\ UNCHANGED <<users, auth, messages, subs, authResult, registered>>
    /\ UNCHANGED storeVars

\* {...old, ...updates}: updates is a partial Event, [field -> value]
Merge(old, updates) ==
    [f \in DOMAIN old |-> IF f \in DOMAIN updates THEN updates[f] ELSE old[f]]

UpdateEvent(eventId, updates) ==
    /\ events' = IF eventId \in DOMAIN events
                 THEN [events EXCEPT ![eventId] = Merge(@, updates)]
                 ELSE events
    /\ UNCHANGED <<users, auth, messages, notifications, subs, authResult, registered>>
    /\ UNCHANGED storeVars

DeleteEvent(eventId) ==
    /\ events' = Remove(events, eventId)
    /\ UNCHANGED <<users, auth, messages, notifications, subs, authResult, registered>>
    /\ UNCHANGED storeVars

MarkNotificationAsRead(notificationId) ==
    /\ notifications' = IF notificationId \in DOMAIN notifications
                        THEN [notifications EXCEPT ![notificationId].read = TRUE]
                        ELSE notifications
    /\ UNCHANGED <<users, auth, events, messages, subs, authResult, registered>>
    /\ UNCHANGED storeVars

(***************************************************************************)
(* The initial state: empty local storage, nothing mounted.                *)
(***************************************************************************)
\* null, where a User is expected
NullUser ==
    [id |-> << >>, email |-> << >>, username |-> << >>, fullName |-> "",
     friends |-> << >>, sent |-> << >>, received |-> << >>]

\* useState<AuthState>({user: null, isAuthenticated: false, isLoading: true})
InitialAuthState == [user |-> NullUser, isAuthenticated |-> FALSE, isLoading |-> TRUE]

\* What localStorage holds under CURRENT_USER_KEY: nothing, the JSON text of a
\* user, or a text JSON.parse rejects
NoSession == [kind |-> "none", user |-> NullUser]
SavedSession(user) == [kind |-> "user", user |-> user]
CorruptSession == [kind |-> "corrupt", user |-> NullUser]

NoCall == [op |-> "none", result |-> NoResult]

\* {success, error} as login and register return it
Returned(op, success, error) == [op |-> op, success |-> success, error |-> error]
NothingReturned == Returned("none", TRUE, "")

InitStorage ==
    /\ users = NoEntries
    /\ auth = NoEntries
    /\ events = NoEntries
    /\ messages = NoEntries
    /\ notifications = NoEntries
    /\ subs = NoEntries
    /\ authResult = NoResult
    /\ registered = {}

InitStore ==
    /\ authState = InitialAuthState
    /\ session = NoSession
    /\ authStateCallback = FALSE
    /\ mounted = "no"
    /\ pendingCall = NoCall
    /\ returned = NothingReturned
    /\ loggedOut = FALSE

Init == InitStorage /\ InitStore

(***************************************************************************)
(* Spec: the users, friends, events and notifications of the service.      *)
(* Two accounts register one after the other; friendships are made between *)
(* two different users (searchUsers never offers the user themself).       *)
(***************************************************************************)
Str_a == <<97>>
Str_B == <<66>>
Str_x == <<120>>
Str_Y == <<89>>

SvcAccounts == << <<Str_a, Str_x>>, <<Str_B, Str_Y>> >>
SvcUserIds == {UserIdPool[1], UserIdPool[2]}

Date0 == ToISOString(0)
Date1 == [valid |-> TRUE, ms |-> 1, iso |-> FALSE]
SvcDates == {Date0, Date1}
SvcEvents == [userId : SvcUserIds, type : {"hangout", "personal"},
              startTime : SvcDates, endTime : SvcDates]

DoCreateUserAccount ==
    \E i \in {Cardinality(DOMAIN users) + 1} \cap DOMAIN SvcAccounts :
        CreateUserAccount(SvcAccounts[i][1], "pw", SvcAccounts[i][2], "name")
DoAcceptFriendRequest ==
    \E u, r \in SvcUserIds : u # r /\ AcceptFriendRequest(u, r)
DoCreateEvent == \E e \in SvcEvents : CreateEvent(e)
DoMarkNotificationAsRead ==
    \E k \in Range(NotificationIdPool) : MarkNotificationAsRead(k)

Next ==
    \/ DoCreateUserAccount
    \/ DoAcceptFriendRequest
    \/ DoCreateEvent
    \/ DoMarkNotificationAsRead

Spec == Init /\ [][Next]_vars

(***************************************************************************)
(* Claims about hangout matching (checked under Spec).                     *)
(***************************************************************************)
\* The keys createEvent added in this step, and the notifications it added
CreatedEventKeys == (DOMAIN events') \ (DOMAIN events)
AddedNotificationKeys == (DOMAIN notifications') \ (DOMAIN notifications)

\* The creator's friends list holds the owner of f
OwnedByFriendOf(creatorId, f) ==
    /\ creatorId \in DOMAIN users
    /\ Includes(users[creatorId].friends, f.userId)

Later(a, b) == IF a >= b THEN a ELSE b
Earlier(a, b) == IF a <= b THEN a ELSE b
CommonStart(e, f) == Later(GetTime(e.startTime), GetTime(f.startTime))
CommonEnd(e, f) == Earlier(GetTime(e.endTime), GetTime(f.endTime))

\* The added notifications that pair the created event k with the event whose id is fid
MatchNotifications(k, fid) ==
    {n \in AddedNotificationKeys :
        /\ notifications'[n].type = "hangout_match"
        /\ notifications'[n].data.hangoutEvents = <<k, fid>>}

\* C1: when createEvent stores a hangout E of user U, a match with a hangout F
\* of a friend of U is produced exactly when max(E.start, F.start) <=
\* min(E.end, F.end), and the overlappingTime of the notification is that range.
C1_MatchIffOverlap ==
    [][\A k \in CreatedEventKeys : \A fk \in DOMAIN events' :
          LET e == events'[k]
              f == events'[fk]
          IN (/\ e.type = "hangout"
              /\ f.type = "hangout"
              /\ OwnedByFriendOf(e.userId, f))
             => /\ (MatchNotifications(k, f.id) # {})
                      <=> (CommonStart(e, f) <= CommonEnd(e, f))
                /\ \A n \in MatchNotifications(k, f.id) :
                      LET t == notifications'[n].data.overlappingTime
                      IN /\ t.start = ToISOString(CommonStart(e, f))
                         /\ t.end = ToISOString(CommonEnd(e, f))]_vars

\* A match was produced for two hangouts that only touch at an endpoint.
C1_Witness ==
    \E n \in DOMAIN notifications :
        /\ notifications[n].type = "hangout_match"
        /\ notifications[n].data.overlappingTime.start.ms = 1
        /\ notifications[n].data.overlappingTime.end.ms = 1
        /\ \E k1, k2 \in DOMAIN events :
              /\ notifications[n].data.hangoutEvents = <<k1, k2>>
              /\ events[k1].startTime # events[k1].endTime
              /\ events[k2].startTime = events[k2].endTime

\* C2 (as claimed): for every friend hangout F overlapping the created hangout
\* E of U exactly two unread hangout_match notifications are added, one to U
\* about F's owner and one to F's owner about U, with the same overlappingTime
\* and the event ids [E, F]; no other notification is added or changed.
C2_ExactlyTwoPerMatch ==
    [][\A k \in CreatedEventKeys :
          LET e == events'[k]
              overlapping == {fk \in DOMAIN events' :
                                /\ e.type = "hangout"
                                /\ events'[fk].type = "hangout"
                                /\ OwnedByFriendOf(e.userId, events'[fk])
                                /\ CommonStart(e, events'[fk]) <= CommonEnd(e, events'[fk])}
          IN /\ \A n \in DOMAIN notifications : notifications'[n] = notifications[n]
             /\ \A n \in AddedNotificationKeys :
                   \E fk \in overlapping : n \in MatchNotifications(k, events'[fk].id)
             /\ \A fk \in overlapping :
                   LET f == events'[fk]
                       ns == MatchNotifications(k, f.id)
                   IN /\ Cardinality(ns) = 2
                      /\ \E n1, n2 \in ns :
                            /\ notifications'[n1].userId = e.userId
                            /\ notifications'[n1].data.matchedUserId = f.userId
                            /\ notifications'[n2].userId = f.userId
                            /\ notifications'[n2].data.matchedUserId = e.userId
                            /\ notifications'[n1].data.overlappingTime
                                  = notifications'[n2].data.overlappingTime
                      /\ \A n \in ns : ~notifications'[n].read]_vars

\* C4: creating an event that is not a hangout adds no notification, and a
\* created hangout is matched only with hangout events whose owner is in the
\* creator's friends list at creation time.
C4_OnlyFriendHangouts ==
    [][\A k \in CreatedEventKeys :
          LET e == events'[k]
          IN /\ e.type # "hangout" => notifications' = notifications
             /\ \A n \in AddedNotificationKeys :
                   notifications'[n].type = "hangout_match" =>
                      \E fk \in DOMAIN events' :
                         /\ notifications'[n].data.hangoutEvents = <<k, events'[fk].id>>
                         /\ events'[fk].type = "hangout"
                         /\ OwnedByFriendOf(e.userId, events'[fk])
                         /\ notifications'[n].userId \in {e.userId, events'[fk].userId}]_vars

\* A hangout was created beside a friend's personal event of the same hours,
\* and no notification was recorded.
C4_Witness ==
    /\ notifications = NoEntries
    /\ \E k1, k2 \in DOMAIN events :
          /\ events[k1].type = "personal"
          /\ events[k2].type = "hangout"
          /\ k2 = EventIdPool[2]
          /\ events[k1].startTime = events[k2].startTime
          /\ events[k1].endTime = events[k2].endTime
          /\ events[k1].userId # events[k2].userId
          /\ OwnedByFriendOf(events[k2].userId, events[k1])

\* C5 (as claimed): the calendar store's getTimeOverlap reports an overlap
\* exactly when the service's checkForHangoutOverlaps emits a match, and both
\* report the same start and end.
C5_SameOverlapCheck ==
    [][\A k \in CreatedEventKeys : \A fk \in DOMAIN events' :
          LET e == events'[k]
              f == events'[fk]
              store == GetTimeOverlap(e, f)
          IN (/\ e.type = "hangout"
              /\ f.type = "hangout"
              /\ OwnedByFriendOf(e.userId, f))
             => /\ (MatchNotifications(k, f.id) # {}) <=> store.found
                /\ \A n \in MatchNotifications(k, f.id) :
                      /\ notifications'[n].data.overlappingTime.start = store.start
                      /\ notifications'[n].data.overlappingTime.end = store.end]_vars

(***************************************************************************)
(* SpecAccounts: registration and sign-in, with e-mails and usernames that *)
(* differ in letter case only.                                             *)
(***************************************************************************)
Str_ab == <<97, 98>>
Str_Ab == <<65, 98>>
Str_AB == <<65, 66>>
Str_c == <<99>>
Str_X == <<88>>
Str_y == <<121>>

AccEmails == {Str_ab, Str_Ab, Str_AB, Str_c}
AccUsernames == {Str_x, Str_X, Str_y}
AccPasswords == {"pw1", "pw2"}

AccCreateUserAccount ==
    \E e \in AccEmails, p \in AccPasswords, u \in AccUsernames :
        CreateUserAccount(e, p, u, "name")
AccSignInUser == \E e \in AccEmails, p \in AccPasswords : SignInUser(e, p)

NextAccounts ==
    \/ AccCreateUserAccount
    \/ AccSignInUser

SpecAccounts == Init /\ [][NextAccounts]_vars

SameIgnoringCase(a, b) == ToLower(a) = ToLower(b)

\* No two stored users share an e-mail or a username, letter case ignored
NoDuplicateUsers ==
    \A k1, k2 \in DOMAIN users :
        k1 # k2 => /\ ~SameIgnoringCase(users[k1].email, users[k2].email)
                   /\ ~SameIgnoringCase(users[k1].username, users[k2].username)

\* A createUserAccount step whose username or e-mail collides with a stored
\* user fails with the matching message and leaves users and auth alone
CollisionRejected ==
    authResult'.op = "createUserAccount" =>
        LET email == authResult'.args[1]
            username == authResult'.args[3]
            usernameTaken == \E k \in DOMAIN users : SameIgnoringCase(users[k].username, username)
            emailTaken == \E k \in DOMAIN users : SameIgnoringCase(users[k].email, email)
        IN /\ (usernameTaken \/ emailTaken) =>
                 /\ ~authResult'.success
                 /\ authResult'.error \in {"Username already exists", "Email already exists"}
                 /\ users' = users
                 /\ auth' = auth
           /\ usernameTaken => authResult'.error = "Username already exists"
           /\ (emailTaken /\ ~usernameTaken) => authResult'.error = "Email already exists"
           /\ ~(usernameTaken \/ emailTaken) => authResult'.success

\* C8: no two stored users have the same e-mail or username compared
\* case-insensitively; a createUserAccount call that collides returns
\* success=false with "Username already exists" / "Email already exists" and
\* leaves the users and auth mappings unchanged.
C8_UniqueAccounts == []NoDuplicateUsers /\ [][CollisionRejected]_vars

\* A registration was refused for a username that differs from a stored one in case only.
C8_Witness ==
    /\ authResult.op = "createUserAccount"
    /\ ~authResult.success
    /\ authResult.error = "Username already exists"
    /\ \E k \in DOMAIN users :
          /\ users[k].username # authResult.args[3]
          /\ SameIgnoringCase(users[k].username, authResult.args[3])
          /\ ~SameIgnoringCase(users[k].email, authResult.args[1])

\* Every registered account signs in under every spelling of its e-mail
SignInRoundTrip ==
    \A r \in registered : \A e \in AccEmails :
        SameIgnoringCase(e, r.email) =>
            LET res == SignInResult(e, r.password)
            IN /\ res.success
               /\ r.userId \in DOMAIN users
               /\ res.ret = users[r.userId]
               /\ res.ret.id = r.userId
               /\ res.ret.email = ToLower(r.email)

\* A signInUser step with an unregistered e-mail or a wrong password fails
\* with "Invalid email or password" and changes no stored data
BadSignInRejected ==
    authResult'.op = "signInUser" =>
        LET email == authResult'.args[1]
            password == authResult'.args[2]
            known == {r \in registered : SameIgnoringCase(r.email, email)}
        IN /\ (known = {} \/ \A r \in known : r.password # password) =>
                 /\ ~authResult'.success
                 /\ authResult'.error = "Invalid email or password"
           /\ UNCHANGED storageVars

\* C9: after createUserAccount(e, p, u, n) succeeds, signInUser(e', p) succeeds
\* and returns that user for every e' equal to e up to letter case; signInUser
\* with an unregistered e-mail or another password returns success=false with
\* "Invalid email or password" and changes no stored data.
C9_SignInRoundTrip == []SignInRoundTrip /\ [][BadSignInRejected]_vars

\* A sign-in succeeded under a spelling of the e-mail other than the registered one.
C9_Witness ==
    /\ authResult.op = "signInUser"
    /\ authResult.success
    /\ \E r \in registered :
          /\ r.email # authResult.args[1]
          /\ r.email # ToLower(r.email)
          /\ authResult.ret.id = r.userId

(***************************************************************************)
(* Messages and the polling subscriptions.                                 *)
(***************************************************************************)
\* (mutant) the two ids joined in the order given
ConversationIdUnsorted(senderId, receiverId) == JoinDash(<<senderId, receiverId>>)

\* [senderId, receiverId].sort().join("-")
ConversationId(senderId, receiverId) == JoinDash(SortPair(senderId, receiverId))

SendMessage(senderId, receiverId, content) ==
    /\ Cardinality(DOMAIN messages) < MaxMessages
    /\ Cardinality(DOMAIN notifications) < MaxNotifications
    /\ LET messageId == GenerateId(MessageIdPool, DOMAIN messages)
       IN messages' = Put(messages, messageId,
              [id |-> messageId, senderId |-> senderId, receiverId |-> receiverId,
               content |-> content,
               conversationId |-> ConversationId(senderId, receiverId),
               timestamp |-> ToISOString(Clock(messages)), read |-> FALSE])
    /\ notifications' = AddNotification(notifications, receiverId, "message",
                                        [senderId |-> senderId])
    /\ UNCHANGED <<users, auth, events, subs, authResult, registered>>
    /\ UNCHANGED storeVars

\* The place of a key in Object.values(obj): the keys in the order of the pool
PoolIndex(pool, id) == CHOOSE i \in 1..Len(pool) : pool[i] = id

\* The entries obj[k], k in keys, as sort((a, b) => key(a) - key(b)) leaves
\* them, key[k] being the comparator's number for obj[k]: ascending key, equal
\* keys in the order of Object.values (the sort is stable)
SortedByKey(obj, keys, pool, key) ==
    LET Before(j, k) ==
            \/ key[j] < key[k]
            \/ key[j] = key[k] /\ PoolIndex(pool, j) < PoolIndex(pool, k)
    IN [r \in 1..Cardinality(keys) |->
           obj[CHOOSE k \in keys : Cardinality({j \in keys : Before(j, k)}) = r - 1]]

\* new Date(a.timestamp).getTime()
TimestampOf(message) == GetTime(message.timestamp)

\* the comparator of getNotifications: b.createdAt - a.createdAt
NewestFirst(notification) == 0 - GetTime(notification.createdAt)

\* getMessages(): the stored messages of the conversation, oldest first
ConversationMessages(conversationId) ==
    LET keys == {k \in DOMAIN messages : messages[k].conversationId = conversationId}
    IN SortedByKey(messages, keys, MessageIdPool,
                   [k \in keys |-> TimestampOf(messages[k])])

\* userNotifications.slice(0, 50)
NotificationLimit == 50

\* getNotifications(): the stored notifications of the user, newest first, at most 50
UserNotifications(userId) ==
    LET keys == {k \in DOMAIN notifications : notifications[k].userId = userId}
        sorted == SortedByKey(notifications, keys, NotificationIdPool,
                              [k \in keys |-> NewestFirst(notifications[k])])
    IN IF Len(sorted) <= NotificationLimit THEN sorted
       ELSE SubSeq(sorted, 1, NotificationLimit)

\* What a poll of the subscription hands to its callback
Poll(kind, key) ==
    IF kind = "messages" THEN ConversationMessages(key) ELSE UserNotifications(key)

\* getConversationMessages(key, callback) / getUserNotifications(key, callback):
\* the initial load calls the callback, setInterval starts the timer.  calls
\* counts the callback's invocations as 1, 2, or 3 for "three or more".
Subscribe(kind, key) ==
    /\ Cardinality(DOMAIN subs) < Len(SubIdPool)
    /\ LET s == GenerateId(SubIdPool, DOMAIN subs)
       IN subs' = Put(subs, s, [kind |-> kind, key |-> key, timer |-> TRUE,
                                unsubscribed |-> FALSE, calls |-> 1,
                                delivered |-> Poll(kind, key)])
    /\ UNCHANGED <<users, auth, events, messages, notifications, authResult, registered>>
    /\ UNCHANGED storeVars

\* The interval of subscription s fires
Tick(s) ==
    /\ s \in DOMAIN subs
    /\ subs[s].timer
    /\ subs' = [subs EXCEPT ![s].calls = IF @ < 3 THEN @ + 1 ELSE @,
                            ![s].delivered = Poll(subs[s].kind, subs[s].key)]
    /\ UNCHANGED <<users, auth, events, messages, notifications, authResult, registered>>
    /\ UNCHANGED storeVars

\* (mutant) the unsubscribe function leaving the interval running
UnsubscribeKeepingTimer(s) ==
    /\ s \in DOMAIN subs
    /\ subs' = [subs EXCEPT ![s].unsubscribed = TRUE]
    /\ UNCHANGED <<users, auth, events, messages, notifications, authResult, registered>>
    /\ UNCHANGED storeVars

\* The function the subscription returned: () => clearInterval(interval)
Unsubscribe(s) ==
    /\ s \in DOMAIN subs
    /\ subs' = [subs EXCEPT ![s].unsubscribed = TRUE, ![s].timer = FALSE]
    /\ UNCHANGED <<users, auth, events, messages, notifications, authResult, registered>>
    /\ UNCHANGED storeVars

(***************************************************************************)
(* SpecMessages: two users whose ids sort differently as text ("10" before *)
(* "2") and as numbers, messages in both directions, one subscription.     *)
(***************************************************************************)
Str_10 == <<49, 48>>
Str_2 == <<50>>
MsgUserIds == {Str_10, Str_2}
MsgConversationIds == {JoinDash(<<a, b>>) : a, b \in MsgUserIds}
SubIds == Range(SubIdPool)

MsgSendMessage == \E a, b \in MsgUserIds : SendMessage(a, b, "hi")
MsgSubscribeMessages == \E c \in MsgConversationIds : Subscribe("messages", c)
MsgSubscribeNotifications == \E u \in MsgUserIds : Subscribe("notifications", u)
MsgTick == \E s \in SubIds : Tick(s)
MsgUnsubscribe == \E s \in SubIds : Unsubscribe(s)

NextMessages ==
    \/ MsgSendMessage
    \/ MsgSubscribeMessages
    \/ MsgSubscribeNotifications
    \/ MsgTick
    \/ MsgUnsubscribe

SpecMessages == Init /\ [][NextMessages]_vars

\* setInterval keeps firing a timer that has not been cleared
SpecMessagesLive == SpecMessages /\ \A s \in SubIds : WF_vars(Tick(s))

\* The text of a conversation id built from the smaller and the larger id
SortedPairId(a, b) ==
    IF LexLess(b, a) THEN b \o <<45>> \o a ELSE a \o <<45>> \o b

InSeq(seq, x) == \E i \in 1..Len(seq) : seq[i] = x

\* C3: the conversation id of a message depends only on the unordered pair of
\* participants: it is formed from the two ids in lexicographically sorted
\* order, so messages of both directions carry the same id and are returned
\* by one getConversationMessages poll on that id.
C3_ConversationIdSymmetric ==
    /\ \A k \in DOMAIN messages :
          /\ messages[k].conversationId
                = SortedPairId(messages[k].senderId, messages[k].receiverId)
          /\ InSeq(ConversationMessages(messages[k].conversationId), messages[k])
    /\ \A k1, k2 \in DOMAIN messages :
          (/\ messages[k1].senderId = messages[k2].receiverId
           /\ messages[k1].receiverId = messages[k2].senderId)
          => /\ messages[k1].conversationId = messages[k2].conversationId
             /\ InSeq(ConversationMessages(messages[k1].conversationId), messages[k2])

\* One subscription was handed the messages of both directions of a thread.
C3_Witness ==
    \E s \in DOMAIN subs : \E i, j \in 1..Len(subs[s].delivered) :
        /\ subs[s].kind = "messages"
        /\ subs[s].delivered[i].senderId = Str_2
        /\ subs[s].delivered[i].receiverId = Str_10
        /\ subs[s].delivered[j].senderId = Str_10
        /\ subs[s].delivered[j].receiverId = Str_2

\* arg is what is stored for the subscription's key: every stored entry of
\* the key once, messages oldest first, notifications newest first
IsCurrent(kind, key, arg, msgs, notifs) ==
    IF kind = "messages"
    THEN /\ {arg[i] : i \in 1..Len(arg)} = {m \in Range(msgs) : m.conversationId = key}
         /\ \A i, j \in 1..Len(arg) : i < j => arg[i].timestamp.ms <= arg[j].timestamp.ms
    ELSE /\ {arg[i] : i \in 1..Len(arg)} = {n \in Range(notifs) : n.userId = key}
         /\ \A i, j \in 1..Len(arg) : i < j => arg[i].createdAt.ms >= arg[j].createdAt.ms

\* A new subscription has called its callback once, with the stored state
CalledOnceOnSubscribe ==
    \A s \in (DOMAIN subs') \ (DOMAIN subs) :
        /\ subs'[s].calls = 1
        /\ IsCurrent(subs'[s].kind, subs'[s].key, subs'[s].delivered, messages', notifications')

\* Whenever the callback of a subscription is called it gets the stored state
CalledWithStoredState ==
    \A s \in DOMAIN subs :
        (subs'[s].calls # subs[s].calls \/ subs'[s].delivered # subs[s].delivered)
        => IsCurrent(subs[s].kind, subs[s].key, subs'[s].delivered, messages', notifications')

\* Once unsubscribed, the callback is not called
NotCalledAfterUnsubscribe ==
    \A s \in DOMAIN subs :
        subs[s].unsubscribed =>
            /\ subs'[s].calls = subs[s].calls
            /\ subs'[s].delivered = subs[s].delivered

\* The live subscription s has not been handed some stored message of its conversation
Behind(s) ==
    /\ s \in DOMAIN subs
    /\ subs[s].kind = "messages"
    /\ ~subs[s].unsubscribed
    /\ \E k \in DOMAIN messages :
          /\ messages[k].conversationId = subs[s].key
          /\ ~InSeq(subs[s].delivered, messages[k])

\* A stored message of a live subscription's conversation reaches its
\* callback, unless the subscription is ended first
DeliveredAtNextPoll == \A s \in SubIds : Behind(s) ~> ~Behind(s)

RecUserId == UserIdPool[1]
RecEvents == [userId : {RecUserId}, type : {"hangout", "personal"},
              startTime : {Date0}, endTime : {Date1}]
RecUpdates == {[type |-> "hangout"], [id |-> EventIdPool[2]]}

RecCreateUserAccount == CreateUserAccount(Str_a, "pw", Str_x, "name")
RecCreateEvent == \E e \in RecEvents : CreateEvent(e)
RecUpdateEvent == \E k \in Range(EventIdPool), u \in RecUpdates : UpdateEvent(k, u)
RecDeleteEvent == \E k \in Range(EventIdPool) : DeleteEvent(k)
RecSendMessage == SendMessage(RecUserId, RecUserId, "hi")
RecSendFriendRequest == SendFriendRequest(RecUserId, UserIdPool[2])
RecMarkNotificationAsRead ==
    \E k \in Range(NotificationIdPool) : MarkNotificationAsRead(k)

NextRecords ==
    \/ RecCreateUserAccount
    \/ RecCreateEvent
    \/ RecUpdateEvent
    \/ RecDeleteEvent
    \/ RecSendMessage
    \/ RecSendFriendRequest
    \/ RecMarkNotificationAsRead

SpecRecords == Init /\ [][NextRecords]_vars

KeyedById(obj) == \A k \in DOMAIN obj : obj[k].id = k

\* C7 (as claimed): after any sequence of createUserAccount, createEvent,
\* updateEvent, deleteEvent, sendMessage, sendFriendRequest and
\* markNotificationAsRead, every entry of the users, events, messages and
\* notifications mappings is stored under a key equal to the entry's id field.
C7_KeyedById ==
    /\ KeyedById(users)
    /\ KeyedById(events)
    /\ KeyedById(messages)
    /\ KeyedById(notifications)

(***************************************************************************)
(* The auth store (useAuthStore of store/authStore.tsx) on top of the      *)
(* service.  A login or register call suspends once, at the await of its   *)
(* service call; the call is resumed before anything else runs.            *)
(***************************************************************************)
\* setState(next) with an object: next replaces the state prev
SetState(prev, next) == next

\* (mutant) the failure branch signing the user out
StopLoadingSignedOut(prev) ==
    [user |-> NullUser, isAuthenticated |-> FALSE, isLoading |-> FALSE]

\* setState((prev) => ({ ...prev, isLoading: false }))
StopLoading(prev) == [prev EXCEPT !.isLoading = FALSE]

\* setState({user, isAuthenticated: true, isLoading: false})
SignedIn(user) == [user |-> user, isAuthenticated |-> TRUE, isLoading |-> FALSE]

\* The listener the mount effect registers:
\* user => setState({user, isAuthenticated: !!user, isLoading: false})
AuthStateListener(user) ==
    [user |-> user, isAuthenticated |-> (user # NullUser), isLoading |-> FALSE]

\* simulateAuthStateChange(user), the component state being state
SimulateAuthStateChange(state, user) ==
    IF authStateCallback THEN AuthStateListener(user) ELSE state

\* The component is rendered: useState gives it the initial state.
Render ==
    /\ mounted = "no"
    /\ mounted' = "rendered"
    /\ authState' = InitialAuthState
    /\ UNCHANGED <<session, authStateCallback, pendingCall, returned, loggedOut>>
    /\ UNCHANGED <<storageVars, subs, authResult, registered>>

\* The effect of useEffect(..., []): restore the saved session, then register
\* the listener, which onAuthStateChange calls with null at once.
MountEffect ==
    /\ mounted = "rendered"
    /\ LET afterRestore ==
               IF session.kind = "user"
               THEN SimulateAuthStateChange(SignedIn(session.user), session.user)
               ELSE StopLoading(authState)
           afterListen == SetState(afterRestore, AuthStateListener(NullUser))
       IN authState' = afterListen
    /\ session' = IF session.kind = "corrupt" THEN NoSession ELSE session
    /\ authStateCallback' = TRUE
    /\ mounted' = "mounted"
    /\ UNCHANGED <<pendingCall, returned, loggedOut>>
    /\ UNCHANGED <<storageVars, subs, authResult, registered>>

\* The component is unmounted (or the page left): the effect's cleanup
\* unsubscribes the listener.
Unmount ==
    /\ mounted = "mounted"
    /\ pendingCall = NoCall
    /\ mounted' = "no"
    /\ authStateCallback' = FALSE
    /\ UNCHANGED <<authState, session, pendingCall, returned, loggedOut>>
    /\ UNCHANGED <<storageVars, subs, authResult, registered>>

\* login(email, password) up to its await
LoginStart(email, password) ==
    /\ mounted = "mounted"
    /\ pendingCall = NoCall
    /\ authState' = [authState EXCEPT !.isLoading = TRUE]
    /\ authResult' = SignInResult(email, password)
    /\ pendingCall' = [op |-> "login", result |-> SignInResult(email, password)]
    /\ UNCHANGED <<session, authStateCallback, mounted, returned, loggedOut>>
    /\ UNCHANGED <<storageVars, subs, registered>>

\* register(email, password, username, fullName) up to its await
RegisterStart(email, password, username, fullName) ==
    /\ mounted = "mounted"
    /\ pendingCall = NoCall
    /\ authState' = [authState EXCEPT !.isLoading = TRUE]
    /\ CreateUserAccountCall(email, password, username, fullName)
    /\ pendingCall' = [op |-> "register", result |-> authResult']
    /\ UNCHANGED <<session, authStateCallback, mounted, returned, loggedOut>>

\* login or register after its await.  throws: localStorage.setItem throws
\* (the quota is used up), which the catch block of the call handles.
CallFinish(throws) ==
    /\ pendingCall # NoCall
    /\ LET result == pendingCall.result
           op == pendingCall.op
       IN IF result.success /\ ~throws
          THEN /\ session' = SavedSession(result.ret)
               /\ authState' = SimulateAuthStateChange(SignedIn(result.ret), result.ret)
               /\ returned' = Returned(op, TRUE, "")
               /\ loggedOut' = FALSE
          ELSE IF result.success
          THEN /\ authState' = StopLoading(authState)
               /\ returned' = Returned(op, FALSE, "QuotaExceededError")
               /\ UNCHANGED <<session, loggedOut>>
          ELSE /\ authState' = StopLoading(authState)
               /\ returned' = Returned(op, FALSE,
                                 IF result.error # "" THEN result.error
                                 ELSE IF op = "login" THEN "Login failed"
                                 ELSE "Registration failed")
               /\ UNCHANGED <<session, loggedOut>>
    /\ pendingCall' = NoCall
    /\ UNCHANGED <<authStateCallback, mounted>>
    /\ UNCHANGED <<storageVars, subs, authResult, registered>>

\* setState({user: null, isAuthenticated: false, isLoading: false})
SignedOut == [user |-> NullUser, isAuthenticated |-> FALSE, isLoading |-> FALSE]

\* (mutant) logout leaving the saved session in localStorage
LogoutKeepingSession ==
    /\ mounted = "mounted"
    /\ pendingCall = NoCall
    /\ authState' = SimulateAuthStateChange(SignedOut, NullUser)
    /\ loggedOut' = TRUE
    /\ UNCHANGED <<session, authStateCallback, mounted, pendingCall, returned>>
    /\ UNCHANGED <<storageVars, subs, authResult, registered>>

\* logout(): signOutUser() only logs; then the session is removed, the state
\* set and the listener told
Logout ==
    /\ mounted = "mounted"
    /\ pendingCall = NoCall
    /\ session' = NoSession
    /\ authState' = SimulateAuthStateChange(SignedOut, NullUser)
    /\ loggedOut' = TRUE
    /\ UNCHANGED <<authStateCallback, mounted, pendingCall, returned>>
    /\ UNCHANGED <<storageVars, subs, authResult, registered>>

\* updateUser(user)
UpdateUser(user) ==
    /\ mounted = "mounted"
    /\ pendingCall = NoCall
    /\ authState' = [authState EXCEPT !.user = user]
    /\ session' = SavedSession(user)
    /\ UNCHANGED <<authStateCallback, mounted, pendingCall, returned, loggedOut>>
    /\ UNCHANGED <<storageVars, subs, authResult, registered>>

(***************************************************************************)
(* SpecAuthStore: the provider is rendered, mounted and unmounted; two     *)
(* people register, log in and log out.  A visit may start with a value    *)
(* under the session key that JSON.parse rejects.                          *)
(***************************************************************************)
StoreEmails == {Str_a, Str_B}
StoreUsernames == {Str_x, Str_Y}
StorePasswords == {"pw1", "pw2"}

InitAuthStore ==
    /\ InitStorage
    /\ authState = InitialAuthState
    /\ session \in {NoSession, CorruptSession}
    /\ authStateCallback = FALSE
    /\ mounted = "no"
    /\ pendingCall = NoCall
    /\ returned = NothingReturned
    /\ loggedOut = FALSE

StoreLoginStart ==
    \E e \in StoreEmails, p \in StorePasswords : LoginStart(e, p)

StoreRegisterStart ==
    \E e \in StoreEmails, p \in StorePasswords, u \in StoreUsernames :
        RegisterStart(e, p, u, "name")

StoreCallFinish == \E throws \in BOOLEAN : CallFinish(throws)

StoreUpdateUser == \E k \in DOMAIN users : UpdateUser(users[k])

NextAuthStore ==
    \/ Render
    \/ MountEffect
    \/ Unmount
    \/ StoreLoginStart
    \/ StoreRegisterStart
    \/ StoreCallFinish
    \/ Logout
    \/ StoreUpdateUser

SpecAuthStore == InitAuthStore /\ [][NextAuthStore]_vars

\* C10 (as claimed): when the store mounts with a stored session value that
\* parses, the mount effect leaves user = the stored user, isAuthenticated =
\* TRUE and isLoading = FALSE; a value that does not parse is removed and the
\* user is left unauthenticated; with no stored value the user is
\* unauthenticated; in every case isLoading is FALSE after the effect.
C10_SessionRestored ==
    [][ (mounted = "rendered" /\ mounted' = "mounted") =>
          /\ ~authState'.isLoading
          /\ session.kind = "user" =>
                 /\ authState' = SignedIn(session.user)
                 /\ session' = session
          /\ session.kind = "corrupt" =>
                 /\ session' = NoSession
                 /\ ~authState'.isAuthenticated
          /\ session.kind = "none" => ~authState'.isAuthenticated ]_vars

\* A login or register call begins / ends with this step
CallBegins == pendingCall = NoCall /\ pendingCall' # NoCall
CallEnds == pendingCall # NoCall /\ pendingCall' = NoCall

\* The step leaves state.user, isAuthenticated and the persisted session alone
SameUserAndSession ==
    /\ authState'.user = authState.user
    /\ authState'.isAuthenticated = authState.isAuthenticated
    /\ session' = session

\* C11: a login or register call that fails (the service refuses it, or an
\* error is thrown) returns success = false with an error message, leaves
\* state.user and isAuthenticated as they were before the call, writes no
\* persisted session and ends with isLoading = false; every login or register
\* call ends with isLoading = false.
C11_FailedCallFrame ==
    [][ /\ CallBegins => SameUserAndSession
        /\ CallEnds =>
             /\ ~authState'.isLoading
             /\ returned'.op = pendingCall.op
             /\ ~pendingCall.result.success => ~returned'.success
             /\ ~returned'.success =>
                    /\ returned'.error # ""
                    /\ SameUserAndSession ]_vars

\* A signed-in user whose later login was refused: still signed in, with the
\* session of before.
C11_Witness ==
    /\ pendingCall = NoCall
    /\ returned.op = "login"
    /\ ~returned.success
    /\ returned.error = "Invalid email or password"
    /\ authState.isAuthenticated
    /\ authState.user # NullUser
    /\ session = SavedSession(authState.user)
    /\ ~authState.isLoading

\* C12: after logout completes, state.user is null, isAuthenticated and
\* isLoading are false and the persisted session is removed; a mount effect
\* that runs after a logout, with no successful login or register since,
\* restores no user.
C12_LogoutClearsSession ==
    [][ /\ Logout =>
             /\ authState' = SignedOut
             /\ session' = NoSession
        /\ (loggedOut /\ mounted = "rendered" /\ mounted' = "mounted") =>
             /\ authState'.user = NullUser
             /\ ~authState'.isAuthenticated ]_vars

\* A user logged in and then logged out while the provider is mounted:
\* nobody is signed in and no session is stored.
C12_Witness ==
    /\ loggedOut
    /\ returned.success
    /\ returned.op = "login"
    /\ mounted = "mounted"
    /\ authStateCallback
    /\ authState = SignedOut
    /\ session = NoSession

(***************************************************************************)
(* The storage-backed user module (utils/auth).  userStorage keeps the     *)
(* users as a list with one record per id; the list is modelled by the     *)
(* mapping users from id to record.                                        *)
(***************************************************************************)
\* userStorage.getUsers().find((u) => u.id === id) finds a user
UserFound(id) == id \in DOMAIN users

\* userStorage.updateUser(user): the stored record of user.id is replaced
StorageUpdateUser(us, user) == [us EXCEPT ![user.id] = user]

\* (mutant) no look at the requests already sent
NeverAlreadySent(fromUser, toUserId) == FALSE

\* fromUser.friendRequests.sent.includes(toUserId)
AlreadySent(fromUser, toUserId) == Includes(fromUser.sent, toUserId)

\* sendFriendRequest(fromUserId, toUserId) of utils/auth.  fromUser and toUser
\* are one object when the two ids are equal.
UtilsSendFriendRequest(fromUserId, toUserId) ==
    /\ IF ~UserFound(fromUserId) \/ ~UserFound(toUserId)
       THEN /\ authResult' = Result("sendFriendRequest", <<fromUserId, toUserId>>,
                                    FALSE, "", << >>)
            /\ UNCHANGED users
       ELSE IF Includes(users[fromUserId].friends, toUserId)
               \/ AlreadySent(users[fromUserId], toUserId)
       THEN /\ authResult' = Result("sendFriendRequest", <<fromUserId, toUserId>>,
                                    FALSE, "", << >>)
            /\ UNCHANGED users
       ELSE LET sender == [users[fromUserId] EXCEPT !.sent = Append(@, toUserId)]
                toUser == IF toUserId = fromUserId
                          THEN [sender EXCEPT !.received = Append(@, fromUserId)]
                          ELSE [users[toUserId] EXCEPT !.received = Append(@, fromUserId)]
                fromUser == IF toUserId = fromUserId THEN toUser ELSE sender
            IN /\ users' = StorageUpdateUser(StorageUpdateUser(users, fromUser), toUser)
               /\ authResult' = Result("sendFriendRequest", <<fromUserId, toUserId>>,
                                       TRUE, "", << >>)
    /\ UNCHANGED <<auth, events, messages, notifications, subs, registered>>
    /\ UNCHANGED storeVars

\* acceptFriendRequest(userId, requesterId) of utils/auth
UtilsAcceptFriendRequest(userId, requesterId) ==
    /\ UserFound(userId) =>
          Len(users[userId].friends) + (IF userId = requesterId THEN 2 ELSE 1) <= MaxFriends
    /\ UserFound(requesterId) => Len(users[requesterId].friends) < MaxFriends
    /\ IF ~UserFound(userId) \/ ~UserFound(requesterId)
       THEN /\ authResult' = Result("acceptFriendRequest", <<userId, requesterId>>,
                                    FALSE, "", << >>)
            /\ UNCHANGED users
       ELSE LET accepter == [users[userId] EXCEPT !.received = Without(@, requesterId)]
                base == IF requesterId = userId THEN accepter ELSE users[requesterId]
                unsent == [base EXCEPT !.sent = Without(@, userId)]
                \* user.friends.push(requesterId); requester.friends.push(userId)
                requester == IF requesterId = userId
                             THEN [unsent EXCEPT !.friends = Append(Append(@, requesterId), userId)]
                             ELSE [unsent EXCEPT !.friends = Append(@, userId)]
                user == IF requesterId = userId THEN requester
                        ELSE [accepter EXCEPT !.friends = Append(@, requesterId)]
            IN /\ users' = StorageUpdateUser(StorageUpdateUser(users, user), requester)
               /\ authResult' = Result("acceptFriendRequest", <<userId, requesterId>>,
                                       TRUE, "", << >>)
    /\ UNCHANGED <<auth, events, messages, notifications, subs, registered>>
    /\ UNCHANGED storeVars

\* rejectFriendRequest(userId, requesterId) of utils/auth
UtilsRejectFriendRequest(userId, requesterId) ==
    /\ IF ~UserFound(userId) \/ ~UserFound(requesterId)
       THEN /\ authResult' = Result("rejectFriendRequest", <<userId, requesterId>>,
                                    FALSE, "", << >>)
            /\ UNCHANGED users
       ELSE LET rejecter == [users[userId] EXCEPT !.received = Without(@, requesterId)]
                base == IF requesterId = userId THEN rejecter ELSE users[requesterId]
                requester == [base EXCEPT !.sent = Without(@, userId)]
                user == IF requesterId = userId THEN requester ELSE rejecter
            IN /\ users' = StorageUpdateUser(StorageUpdateUser(users, user), requester)
               /\ authResult' = Result("rejectFriendRequest", <<userId, requesterId>>,
                                       TRUE, "", << >>)
    /\ UNCHANGED <<auth, events, messages, notifications, subs, registered>>
    /\ UNCHANGED storeVars

(***************************************************************************)
(* SpecUtilsFriends: two registered users and an id nobody has; requests   *)
(* are sent, accepted and rejected in any order, also to oneself.          *)
(***************************************************************************)
UtilsUserIds == {UserIdPool[1], UserIdPool[2]}
UtilsIds == UtilsUserIds \cup {<<117, 48>>}

\* The users as registerUser (createUser) leaves them
InitUtilsFriends ==
    /\ users = [id \in UtilsUserIds |->
                   IF id = UserIdPool[1] THEN NewUser(id, Str_a, Str_x, "name")
                   ELSE NewUser(id, Str_B, Str_Y, "name")]
    /\ auth = NoEntries
    /\ events = NoEntries
    /\ messages = NoEntries
    /\ notifications = NoEntries
    /\ subs = NoEntries
    /\ authResult = NoResult
    /\ registered = {}
    /\ InitStore

UtilsSend == \E f, t \in UtilsIds : UtilsSendFriendRequest(f, t)
UtilsAccept == \E u, r \in UtilsIds : UtilsAcceptFriendRequest(u, r)
UtilsReject == \E u, r \in UtilsIds : UtilsRejectFriendRequest(u, r)

NextUtilsFriends ==
    \/ UtilsSend
    \/ UtilsAccept
    \/ UtilsReject

SpecUtilsFriends == InitUtilsFriends /\ [][NextUtilsFriends]_vars

\* How often x occurs in arr
RECURSIVE Count(_, _)
Count(arr, x) ==
    IF arr = << >> THEN 0
    ELSE (IF Head(arr) = x THEN 1 ELSE 0) + Count(Tail(arr), x)

\* The case in which sendFriendRequest(f, t) is to refuse
SendRefused(f, t) ==
    \/ f \notin DOMAIN users
    \/ t \notin DOMAIN users
    \/ Count(users[f].friends, t) > 0
    \/ Count(users[f].sent, t) > 0

\* users' is users with t added at the end of f's sent list and f at the end
\* of t's received list, and nothing else changed
RequestAdded(f, t) ==
    /\ DOMAIN users' = DOMAIN users
    /\ users'[f].sent = Append(users[f].sent, t)
    /\ users'[t].received = Append(users[t].received, f)
    /\ Count(users'[f].sent, t) = 1
    /\ \A k \in DOMAIN users :
          /\ k # f => users'[k].sent = users[k].sent
          /\ k # t => users'[k].received = users[k].received
          /\ [users'[k] EXCEPT !.sent = << >>, !.received = << >>]
               = [users[k] EXCEPT !.sent = << >>, !.received = << >>]

NoDuplicatePending ==
    \A k \in DOMAIN users : \A x \in UtilsIds :
        /\ Count(users[k].sent, x) <= 1
        /\ Count(users[k].received, x) <= 1

\* C13: sendFriendRequest(from, to) of the storage-backed user module returns
\* false and leaves every user record unchanged when either user does not
\* exist, when the two are already friends, or when from already has a pending
\* sent request to to; otherwise it returns true and adds to exactly once to
\* from's sent list and from exactly once to to's received list, so that
\* repeated sends never create duplicate pending entries.
C13_GuardedSendFriendRequest ==
    /\ [][ \A f, t \in UtilsIds :
             UtilsSendFriendRequest(f, t) =>
                 IF SendRefused(f, t)
                 THEN ~authResult'.success /\ users' = users
                 ELSE authResult'.success /\ RequestAdded(f, t) ]_vars
    /\ []NoDuplicatePending

\* A pending request from the first user to the second, and a repeated send
\* of it that was refused.
C13_Witness ==
    /\ authResult.op = "sendFriendRequest"
    /\ authResult.args = <<UserIdPool[1], UserIdPool[2]>>
    /\ ~authResult.success
    /\ users[UserIdPool[1]].sent = <<UserIdPool[2]>>
    /\ users[UserIdPool[2]].received = <<UserIdPool[1]>>
    /\ users[UserIdPool[1]].friends = << >>

(***************************************************************************)
(* SpecFriends: the friend requests of the service.  Two accounts register *)
(* one after the other; requests are sent from or to the first, the two    *)
(* accept each other's, and requests are rejected for them and for an id   *)
(* nobody has.                                                             *)
(***************************************************************************)
FriendIds == SvcUserIds \cup {<<117, 48>>}

FriendsCreateUserAccount == DoCreateUserAccount
FriendsSend ==
    \E f, t \in SvcUserIds :
        (f = UserIdPool[1] \/ t = UserIdPool[1]) /\ SendFriendRequest(f, t)
FriendsAccept == DoAcceptFriendRequest
FriendsReject == \E u, r \in FriendIds : RejectFriendRequest(u, r)

NextFriends ==
    \/ FriendsCreateUserAccount
    \/ FriendsSend
    \/ FriendsAccept
    \/ FriendsReject

SpecFriends == Init /\ [][NextFriends]_vars

\* arr without the entries equal to x, the others in their order
Removed(arr, x) == SelectSeq(arr, LAMBDA y : y # x)

\* users' is users with r taken out of u's received list and u out of r's
\* sent list, and nothing else changed
RequestRemoved(u, r) ==
    /\ DOMAIN users' = DOMAIN users
    /\ \A k \in DOMAIN users :
          /\ users'[k].received = IF k = u THEN Removed(users[k].received, r)
                                  ELSE users[k].received
          /\ users'[k].sent = IF k = r THEN Removed(users[k].sent, u)
                              ELSE users[k].sent
          /\ users'[k].friends = users[k].friends
          /\ [users'[k] EXCEPT !.sent = << >>, !.received = << >>]
               = [users[k] EXCEPT !.sent = << >>, !.received = << >>]

\* The request of r to u is pending on neither side
NotPending(us, u, r) ==
    /\ u \in DOMAIN us => Count(us[u].received, r) = 0
    /\ r \in DOMAIN us => Count(us[r].sent, u) = 0

\* C14: rejectFriendRequest(user, requester) removes requester from user's
\* received list and user from requester's sent list and changes nothing
\* else: the friends lists of all users and all other pending requests are
\* as before; after it the request is pending on neither side.
C14_RejectFrame ==
    [][ \A u, r \in FriendIds :
          RejectFriendRequest(u, r) =>
              /\ RequestRemoved(u, r)
              /\ NotPending(users', u, r)
              /\ UNCHANGED <<auth, events, messages, notifications>> ]_vars

\* The first user sent the second a request that is no longer pending, while
\* the second user's request to the first still is, and nobody is a friend.
C14_Witness ==
    /\ UserIdPool[2] \in DOMAIN users
    /\ users[UserIdPool[1]].sent = << >>
    /\ users[UserIdPool[1]].received = <<UserIdPool[2]>>
    /\ users[UserIdPool[2]].sent = <<UserIdPool[1]>>
    /\ users[UserIdPool[2]].received = << >>
    /\ users[UserIdPool[1]].friends = << >>
    /\ users[UserIdPool[2]].friends = << >>
    /\ \E n \in DOMAIN notifications :
          /\ notifications[n].type = "friend_request"
          /\ notifications[n].userId = UserIdPool[2]
          /\ notifications[n].data.senderId = UserIdPool[1]

=============================================================================
